---------------------------- MODULE Spec2Model ----------------------------
(***************************************************************************)
(* Model of the two pipelines of the repository:                           *)
(*   - web-scraping/json_to_names_csv.py  (JSON file -> CSV/XLSX table)    *)
(*   - web-scraping/scrap.py              (Overpass scraper)               *)
(*                                                                         *)
(* Python strings are sequences of characters (one-character TLA+ strings; *)
(* a Bangla code point is written "Uxxxx"), so that lower(), strip(),      *)
(* split(), join() and the substring test `kw in name` are computed, not   *)
(* assumed.  A JSON / Python value is a record [t |-> type tag, v |-> ...]:*)
(* a dict is the sequence of its <<key, value>> pairs in insertion order.  *)
(* A raised exception is the value [t |-> "raise", v |-> kind].            *)
(***************************************************************************)
EXTENDS Integers, Sequences, FiniteSets, TLC

\* ---------------------------------------------------------------- strings
s_name == <<"n", "a", "m", "e">>
s_tags == <<"t", "a", "g", "s">>
s_address == <<"a", "d", "d", "r", "e", "s", "s">>
s_phone == <<"p", "h", "o", "n", "e">>
s_category == <<"c", "a", "t", "e", "g", "o", "r", "y">>
s_lat == <<"l", "a", "t">>
s_lon == <<"l", "o", "n">>
s_osm_id == <<"o", "s", "m", "_", "i", "d">>
s_osm_type == <<"o", "s", "m", "_", "t", "y", "p", "e">>
s_amenity == <<"a", "m", "e", "n", "i", "t", "y">>
s_building == <<"b", "u", "i", "l", "d", "i", "n", "g">>
s_office == <<"o", "f", "f", "i", "c", "e">>
s_madrasa == <<"m", "a", "d", "r", "a", "s", "a">>
s_religion == <<"r", "e", "l", "i", "g", "i", "o", "n">>
s_addr_housenumber == <<"a", "d", "d", "r", ":", "h", "o", "u", "s", "e", "n", "u", "m", "b", "e", "r">>
s_addr_street == <<"a", "d", "d", "r", ":", "s", "t", "r", "e", "e", "t">>
s_addr_city == <<"a", "d", "d", "r", ":", "c", "i", "t", "y">>
s_addr_postcode == <<"a", "d", "d", "r", ":", "p", "o", "s", "t", "c", "o", "d", "e">>
s_addr_country == <<"a", "d", "d", "r", ":", "c", "o", "u", "n", "t", "r", "y">>
s_addr_full == <<"a", "d", "d", "r", ":", "f", "u", "l", "l">>
s_contact_address == <<"c", "o", "n", "t", "a", "c", "t", ":", "a", "d", "d", "r", "e", "s", "s">>
s_contact_phone == <<"c", "o", "n", "t", "a", "c", "t", ":", "p", "h", "o", "n", "e">>
s_telephone == <<"t", "e", "l", "e", "p", "h", "o", "n", "e">>
s_results == <<"r", "e", "s", "u", "l", "t", "s">>
s_elements == <<"e", "l", "e", "m", "e", "n", "t", "s">>
s_items == <<"i", "t", "e", "m", "s">>
s_type == <<"t", "y", "p", "e">>
s_id == <<"i", "d">>
s_center == <<"c", "e", "n", "t", "e", "r">>
s_school == <<"s", "c", "h", "o", "o", "l">>
s_college == <<"c", "o", "l", "l", "e", "g", "e">>
s_university == <<"u", "n", "i", "v", "e", "r", "s", "i", "t", "y">>
s_other == <<"o", "t", "h", "e", "r">>
s_education == <<"e", "d", "u", "c", "a", "t", "i", "o", "n">>
s_training == <<"t", "r", "a", "i", "n", "i", "n", "g">>
s_muslim == <<"m", "u", "s", "l", "i", "m">>
s_kindergarten == <<"k", "i", "n", "d", "e", "r", "g", "a", "r", "t", "e", "n">>
s_library == <<"l", "i", "b", "r", "a", "r", "y">>
s_research == <<"r", "e", "s", "e", "a", "r", "c", "h">>
s_madrash == <<"m", "a", "d", "r", "a", "s", "h">>
s_bn_madrasa == <<"U09AE", "U09BE", "U09A6", "U09CD", "U09B0", "U09BE", "U09B8", "U09BE">>
s_schooling == <<"s", "c", "h", "o", "o", "l", "i", "n", "g">>
s_bn_school_a == <<"U09AC", "U09BF", "U09A6", "U09CD", "U09AF", "U09BE", "U09B2", "U09AF", "U09BC">>
s_bn_school_b == <<"U09AC", "U09BF", "U09A6", "U09CD", "U09AF", "U09BE", "U09B2", "U09DF">>
s_primary == <<"p", "r", "i", "m", "a", "r", "y">>
s_secondary == <<"s", "e", "c", "o", "n", "d", "a", "r", "y">>
s_institute == <<"i", "n", "s", "t", "i", "t", "u", "t", "e">>
s_institute_of == <<"i", "n", "s", "t", "i", "t", "u", "t", "e", " ", "o", "f">>
s_bn_college == <<"U0995", "U09B2", "U09C7", "U099C">>
s_bn_university == <<"U09AC", "U09BF", "U09B6", "U09CD", "U09AC", "U09AC", "U09BF", "U09A6", "U09CD", "U09AF", "U09BE", "U09B2", "U09AF", "U09BC">>
s_None == <<"N", "o", "n", "e">>
s_True == <<"T", "r", "u", "e">>
s_False == <<"F", "a", "l", "s", "e">>
s_comma_space == <<",", " ">>
s_colon_space == <<":", " ">>
v_dhaka_college == <<"D", "h", "a", "k", "a", " ", "C", "o", "l", "l", "e", "g", "e">>
v_al_madrasa == <<"A", "l", " ", "M", "A", "D", "R", "A", "S", "A">>
v_city_school == <<"C", "i", "t", "y", " ", "S", "c", "h", "o", "o", "l">>
v_x == <<"X">>
\* the one-character string json.load makes of the escape \ud800
v_surrogate == <<"UD800">>
v_model_primary == <<"M", "o", "d", "e", "l", " ", "P", "r", "i", "m", "a", "r", "y">>
v_School == <<"S", "c", "h", "o", "o", "l">>
v_University == <<"U", "n", "i", "v", "e", "r", "s", "i", "t", "y">>
v_Training == <<"T", "r", "a", "i", "n", "i", "n", "g">>
v_cafe == <<"c", "a", "f", "e">>
v_yes == <<"y", "e", "s">>
v_main_st == <<"M", "a", "i", "n", " ", "S", "t">>
v_dhaka == <<"D", "h", "a", "k", "a">>
v_12 == <<"1", "2">>
v_bd == <<"B", "D">>
v_full == <<"F", "u", "l", "l", " ", "A", "d", "d", "r">>
v_contact == <<"C", "o", "n", "t", "a", "c", "t", " ", "A", "d", "d", "r">>
v_top_addr == <<"T", "o", "p", " ", "A", "d", "d", "r">>
v_111 == <<"1", "1", "1">>
v_222 == <<"2", "2", "2">>
v_333 == <<"3", "3", "3">>
v_444 == <<"4", "4", "4">>
v_website == <<"w", "e", "b", "s", "i", "t", "e">>
v_capacity == <<"c", "a", "p", "a", "c", "i", "t", "y">>
v_url == <<"h", "t", "t", "p", ":", "/", "/", "x">>
v_node == <<"n", "o", "d", "e">>
v_way == <<"w", "a", "y">>
p_out_csv == <<"o", "u", "t", ".", "c", "s", "v">>
p_out_xlsx == <<"O", "U", "T", ".", "X", "L", "S", "X">>
a_name == <<"n", "a", "m", "e">>
a_name_address_category == <<"n", "a", "m", "e", ",", "a", "d", "d", "r", "e", "s", "s", ",", "c", "a", "t", "e", "g", "o", "r", "y">>
a_name_phone_spaced == <<" ", "n", "a", "m", "e", " ", ",", " ", "p", "h", "o", "n", "e">>
a_none == <<>>
a_name_gap_lat == <<"n", "a", "m", "e", ",", ",", "l", "a", "t">>
a_address_spaced == <<" ", "a", "d", "d", "r", "e", "s", "s", " ">>

s_empty == <<>>

\* ----------------------------------------------------------- Python values
Null == [t |-> "null", v |-> <<>>]
Bool(b) == [t |-> "bool", v |-> b]
Num(n) == [t |-> "num", v |-> n]
Str(s) == [t |-> "str", v |-> s]
List(xs) == [t |-> "list", v |-> xs]
Dict(kvs) == [t |-> "dict", v |-> kvs]
Raise(kind) == [t |-> "raise", v |-> kind]

EmptyStr == Str(s_empty)
EmptyDict == Dict(<<>>)

IsRaise(x) == x.t = "raise"
IsStr(x) == x.t = "str"

\* Python's bool(x).
Truthy(x) ==
  CASE x.t = "null" -> FALSE
    [] x.t = "bool" -> x.v
    [] x.t = "num" -> x.v # 0
    [] x.t \in {"str", "list", "dict"} -> Len(x.v) > 0

\* Python's x == y on JSON values of the kinds compared in the code.
PyEq(x, y) == x.t = y.t /\ x.v = y.v

\* Python's `a or b`; b is only looked at when a is falsy.
Or(a, b) == IF IsRaise(a) THEN a ELSE IF Truthy(a) THEN a ELSE b

HasKey(d, k) == \E i \in 1..Len(d.v) : d.v[i][1] = k
Lookup(d, k) == d.v[CHOOSE i \in 1..Len(d.v) : d.v[i][1] = k][2]

\* x.get(k, dflt): only a dict has .get.
Get(x, k, dflt) ==
  IF IsRaise(x) THEN x
  ELSE IF x.t # "dict" THEN Raise("AttributeError")
  ELSE IF HasKey(x, k) THEN Lookup(x, k) ELSE dflt

\* ------------------------------------------------------- string operations
UpperAlpha == <<"A","B","C","D","E","F","G","H","I","J","K","L","M",
                "N","O","P","Q","R","S","T","U","V","W","X","Y","Z">>
LowerAlpha == <<"a","b","c","d","e","f","g","h","i","j","k","l","m",
                "n","o","p","q","r","s","t","u","v","w","x","y","z">>

LowerChar(c) ==
  IF \E i \in 1..26 : UpperAlpha[i] = c
  THEN LowerAlpha[CHOOSE i \in 1..26 : UpperAlpha[i] = c]
  ELSE c

LowerSeq(s) == [i \in 1..Len(s) |-> LowerChar(s[i])]

\* x.lower(): only a str has .lower.
Lower(x) ==
  IF IsRaise(x) THEN x
  ELSE IF IsStr(x) THEN Str(LowerSeq(x.v)) ELSE Raise("AttributeError")

\* `kw in s` on two strings.
Contains(kw, s) ==
  \E i \in 0..(Len(s) - Len(kw)) : SubSeq(s, i + 1, i + Len(kw)) = kw

Whitespace == {" ", "\t", "\n", "\r"}

RECURSIVE LStrip(_)
LStrip(s) == IF s # <<>> /\ Head(s) \in Whitespace THEN LStrip(Tail(s)) ELSE s

RECURSIVE RStrip(_)
RStrip(s) ==
  IF s # <<>> /\ s[Len(s)] \in Whitespace THEN RStrip(SubSeq(s, 1, Len(s) - 1)) ELSE s

\* s.strip()
Strip(s) == RStrip(LStrip(s))

\* s.split(sep) for a one-character separator: always at least one piece.
RECURSIVE Split(_, _)
Split(s, sep) ==
  IF \E i \in 1..Len(s) : s[i] = sep
  THEN LET i == CHOOSE j \in 1..Len(s) : s[j] = sep /\ \A k \in 1..(j - 1) : s[k] # sep
       IN  <<SubSeq(s, 1, i - 1)>> \o Split(SubSeq(s, i + 1, Len(s)), sep)
  ELSE <<s>>

\* sep.join(parts) on character sequences.
RECURSIVE JoinSeq(_, _)
JoinSeq(sep, parts) ==
  IF parts = <<>> THEN <<>>
  ELSE IF Len(parts) = 1 THEN parts[1]
  ELSE parts[1] \o sep \o JoinSeq(sep, Tail(parts))

\* sep.join(parts) on values: a non-str part is a TypeError.
Join(sep, parts) ==
  IF \E i \in 1..Len(parts) : ~IsStr(parts[i]) THEN Raise("TypeError")
  ELSE Str(JoinSeq(sep, [i \in 1..Len(parts) |-> parts[i].v]))

Digits == <<"0","1","2","3","4","5","6","7","8","9">>

RECURSIVE NatStr(_)
NatStr(n) == IF n < 10 THEN <<Digits[n + 1]>> ELSE NatStr(n \div 10) \o <<Digits[(n % 10) + 1]>>

IntStr(n) == IF n < 0 THEN <<"-">> \o NatStr(0 - n) ELSE NatStr(n)

\* repr(x); a string is quoted with ' (the strings of the model hold no quote,
\* backslash or control character, for which repr would escape).
RECURSIVE PyRepr(_)
PyRepr(x) ==
  CASE x.t = "null" -> s_None
    [] x.t = "bool" -> IF x.v THEN s_True ELSE s_False
    [] x.t = "num" -> IntStr(x.v)
    [] x.t = "str" -> <<"'">> \o x.v \o <<"'">>
    [] x.t = "list" ->
         <<"[">> \o JoinSeq(s_comma_space, [i \in 1..Len(x.v) |-> PyRepr(x.v[i])]) \o <<"]">>
    [] x.t = "dict" ->
         <<"{">> \o JoinSeq(s_comma_space,
                     [i \in 1..Len(x.v) |->
                        PyRepr(Str(x.v[i][1])) \o s_colon_space \o PyRepr(x.v[i][2])])
              \o <<"}">>

\* str(x)
PyStr(x) == IF IsRaise(x) THEN x ELSE IF IsStr(x) THEN x ELSE Str(PyRepr(x))

\* ===================================================== json_to_names_csv.py

\* extract_name(item)
extract_name(item) ==
  LET name == Get(item, s_name, Null) IN
  IF IsRaise(name) THEN name
  ELSE IF Truthy(name) THEN name
  ELSE LET tags == Or(Get(item, s_tags, Null), EmptyDict) IN
       Get(tags, s_name, EmptyStr)

\* load_json(path), applied to the parsed document `data`.
\* variant: items looked up before elements
ListKeys_ItemsFirst == <<s_results, s_items, s_elements>>

ListKeys == <<s_results, s_elements, s_items>>

load_json(data) ==
  IF data.t = "dict"
  THEN IF \E i \in 1..3 : HasKey(data, ListKeys[i]) /\ Lookup(data, ListKeys[i]).t = "list"
       THEN LET i == CHOOSE j \in 1..3 :
                       /\ HasKey(data, ListKeys[j]) /\ Lookup(data, ListKeys[j]).t = "list"
                       /\ \A k \in 1..(j - 1) :
                            ~(HasKey(data, ListKeys[k]) /\ Lookup(data, ListKeys[k]).t = "list")
            IN  Lookup(data, ListKeys[i]).v
       ELSE <<data>>
  ELSE IF data.t = "list" THEN data.v
  ELSE <<>>

AddrKeys == <<s_addr_housenumber, s_addr_street, s_addr_city, s_addr_postcode, s_addr_country>>

\* the `parts` list of extract_address: the truthy values, in key order
RECURSIVE AddrParts(_, _)
AddrParts(tags, k) ==
  IF k > Len(AddrKeys) THEN <<>>
  ELSE LET v == Get(tags, AddrKeys[k], Null) IN
       (IF Truthy(v) THEN <<v>> ELSE <<>>) \o AddrParts(tags, k + 1)

\* variant: addr:full preferred to the component tags
extract_address_FullFirst(tags) ==
  IF tags.t # "dict" THEN Raise("AttributeError")
  ELSE LET parts == AddrParts(tags, 1)
           full == Or(Get(tags, s_addr_full, Null), Get(tags, s_contact_address, Null))
       IN  IF Truthy(full) THEN full
           ELSE IF parts # <<>> THEN Join(s_comma_space, parts)
           ELSE EmptyStr

\* extract_address(tags)
extract_address(tags) ==
  IF tags.t # "dict" THEN Raise("AttributeError")
  ELSE LET parts == AddrParts(tags, 1) IN
       IF parts # <<>> THEN Join(s_comma_space, parts)
       ELSE Or(Or(Get(tags, s_addr_full, Null), Get(tags, s_contact_address, Null)), EmptyStr)

PhoneKeys == <<s_phone, s_contact_phone, s_telephone>>

\* `key in tags` followed by tags[key], for whatever tags is:
\* "in" = the test succeeds, "out" = it fails, "TypeError" = it raises.
KeyIn(key, tags) ==
  CASE tags.t = "dict" -> IF HasKey(tags, key) THEN "in" ELSE "out"
    [] tags.t = "str" -> IF Contains(key, tags.v) THEN "in" ELSE "out"
    [] tags.t = "list" -> IF \E i \in 1..Len(tags.v) : PyEq(tags.v[i], Str(key)) THEN "in" ELSE "out"
    [] OTHER -> "TypeError"

\* extract_phone(tags)
RECURSIVE PhoneFrom(_, _)
PhoneFrom(tags, k) ==
  IF k > Len(PhoneKeys) THEN EmptyStr
  ELSE LET r == KeyIn(PhoneKeys[k], tags) IN
       IF r = "TypeError" THEN Raise("TypeError")
       ELSE IF r = "in"
            THEN (IF tags.t = "dict" THEN Lookup(tags, PhoneKeys[k]) ELSE Raise("TypeError"))
            ELSE PhoneFrom(tags, k + 1)

extract_phone(tags) == PhoneFrom(tags, 1)

madrasa_keywords == <<s_madrasa, s_madrash, s_bn_madrasa, s_bn_madrasa>>
school_keywords == <<s_school, s_schooling, s_bn_school_a, s_bn_school_b, s_primary, s_secondary>>
college_keywords ==
  <<s_college, s_university, s_institute, s_institute_of, s_bn_college, s_bn_university>>

AnyKeyword(kws, name) == \E i \in 1..Len(kws) : Contains(kws[i], name)

\* variant: the name keywords are tried before the explicit tags
CategoryRules_KeywordsFirst(tags, amenity, building, office, name) ==
  IF AnyKeyword(madrasa_keywords, name) THEN s_madrasa
  ELSE IF \/ Truthy(Get(tags, s_madrasa, Null))
          \/ (PyEq(Get(tags, s_religion, Null), Str(s_muslim)) /\ Contains(s_madrasa, name))
  THEN s_madrasa
  ELSE IF AnyKeyword(school_keywords, name) THEN s_school
  ELSE IF AnyKeyword(college_keywords, name) THEN s_college
  ELSE IF amenity \in {s_school} THEN s_school
  ELSE IF amenity \in {s_college, s_university} \/ building \in {s_college, s_university}
  THEN s_college
  ELSE IF office \in {s_education, s_training} \/ building \in {s_school} THEN s_school
  ELSE s_other

\* the rule chain of determine_category on the lower-cased strings
CategoryRules(tags, amenity, building, office, name) ==
  IF amenity \in {s_school} THEN s_school
  ELSE IF amenity \in {s_college, s_university} \/ building \in {s_college, s_university}
  THEN s_college
  ELSE IF AnyKeyword(madrasa_keywords, name) THEN s_madrasa
  ELSE IF \/ Truthy(Get(tags, s_madrasa, Null))
          \/ (PyEq(Get(tags, s_religion, Null), Str(s_muslim)) /\ Contains(s_madrasa, name))
  THEN s_madrasa
  ELSE IF AnyKeyword(school_keywords, name) THEN s_school
  ELSE IF AnyKeyword(college_keywords, name) THEN s_college
  ELSE IF office \in {s_education, s_training} \/ building \in {s_school} THEN s_school
  ELSE s_other

\* determine_category(item)
determine_category(item) ==
  LET tags == Or(Get(item, s_tags, Null), EmptyDict)
      amenity == Lower(Or(Get(tags, s_amenity, Null), EmptyStr))
      building == Lower(Or(Get(tags, s_building, Null), EmptyStr))
      office == Lower(Or(Get(tags, s_office, Null), EmptyStr))
      name == Lower(Or(extract_name(item), EmptyStr))
  IN  IF IsRaise(tags) THEN tags
      ELSE IF IsRaise(amenity) THEN amenity
      ELSE IF IsRaise(building) THEN building
      ELSE IF IsRaise(office) THEN office
      ELSE IF IsRaise(name) THEN name
      ELSE Str(CategoryRules(tags, amenity.v, building.v, office.v, name.v))

DirectFields == {s_lat, s_lon, s_osm_id, s_osm_type}

\* the last line of extract_value: top-level value, then tags, then ""
GenericValue(item, tags, field) ==
  PyStr(Or(Or(Get(item, field, Null), Get(tags, field, Null)), EmptyStr))

\* extract_value(item, field)
extract_value(item, rawField) ==
  LET tags == Or(Get(item, s_tags, Null), EmptyDict)
      field == Strip(rawField)
  IN  IF IsRaise(tags) THEN tags
      ELSE IF field = s_name THEN Or(extract_name(item), EmptyStr)
      ELSE IF field = s_address
           THEN Or(Or(Get(item, s_address, Null), extract_address(tags)), EmptyStr)
      ELSE IF field = s_phone
           THEN Or(Or(Get(item, s_phone, Null), extract_phone(tags)), EmptyStr)
      ELSE IF field = s_category THEN determine_category(item)
      ELSE IF field \in DirectFields
           THEN (IF Get(item, field, Null) # Null THEN PyStr(Get(item, field, EmptyStr))
                 ELSE EmptyStr)
      ELSE GenericValue(item, tags, field)

\* fields = [f.strip() for f in args.fields.split(",") if f.strip()]
RECURSIVE StripAll(_)
StripAll(parts) ==
  IF parts = <<>> THEN <<>>
  ELSE (IF Strip(Head(parts)) # <<>> THEN <<Strip(Head(parts))>> ELSE <<>>)
       \o StripAll(Tail(parts))

ParseFields(arg) == StripAll(Split(arg, ","))

\* row = [extract_value(it, f) for f in fields]: the cells, or the first
\* exception raised while computing them
MakeRow(it, fs) ==
  LET cells == [k \in 1..Len(fs) |-> extract_value(it, fs[k])] IN
  IF \E k \in 1..Len(fs) : IsRaise(cells[k])
  THEN cells[CHOOSE k \in 1..Len(fs) :
               IsRaise(cells[k]) /\ \A j \in 1..(k - 1) : ~IsRaise(cells[j])]
  ELSE List(cells)

\* variant: all(cell for cell in row)
AnyCell_All(row) == \A k \in 1..Len(row) : Truthy(row[k])

\* any(cell for cell in row)
AnyCell(row) == \E k \in 1..Len(row) : Truthy(row[k])

\* ================================================================== state
VARIABLES
  pc,         \* table export: position in main()
  data,       \* table export: the document json.load returned
  fieldsArg,  \* table export: args.fields
  xlsxFlag,   \* table export: args.xlsx
  output,     \* table export: args.output
  items,      \* table export: items (load_json's result)
  fields,     \* table export: fields
  i,          \* table export: number of items the loop has taken
  row,        \* table export: the row built for the last item taken
  rows,       \* table export: rows
  err,        \* table export: the uncaught exception, "" if none
  outFile,    \* table export: the file the run created at args.output: <<>> if none,
              \* else <<header, rows, complete>> (complete = FALSE: the write was cut short)
  printed,    \* table export: what the run printed last
  spc,         \* scraper: position in main() / parse_elements()
  argLocation, \* scraper: args.location (Null when not given)
  argLat,      \* scraper: args.lat (Null when not given), in 1e-7 degrees
  argLon,      \* scraper: args.lon (Null when not given), in 1e-7 degrees
  mode,        \* scraper: the mode parse_elements runs in
  coords,      \* scraper: <<lat, lon>> once determined, <<>> before
  calls,       \* scraper: the HTTP requests issued so far, in order
  elements,    \* scraper: the elements being parsed
  taken,       \* scraper: number of elements the loop has taken
  seen,        \* scraper: seen
  results,     \* scraper: results
  saved,       \* scraper: the file save_results created, <<>> if none
  serr         \* scraper: the uncaught exception, "" if none

exportVars ==
  <<pc, data, fieldsArg, xlsxFlag, output, items, fields, i, row, rows, err, outFile, printed>>

scraperVars ==
  <<spc, argLocation, argLat, argLon, mode, coords, calls, elements, taken, seen, results, saved, serr>>

vars == <<exportVars, scraperVars>>

\* ------------------------------------------------------- bounds and inputs
MaxItems == 2

\* a dict entry that may be absent: opt is <<>> or <<value>>
KV(k, opt) == IF opt = <<>> THEN <<>> ELSE <<<<k, opt[1]>>>>
Absent == <<>>
S(s) == <<Str(s)>>

\* records for the category rules: every combination of the tags the rules
\* read, in both letter cases, with names at top level and under tags
CatItems ==
  { Dict(KV(s_name, nt) \o
         KV(s_tags, <<Dict(KV(s_name, ng) \o KV(s_amenity, am) \o KV(s_building, bu) \o
                           KV(s_office, of) \o KV(s_madrasa, ma) \o KV(s_religion, re))>>)) :
      nt \in {Absent, S(s_empty), S(v_city_school)},
      ng \in {Absent, S(v_dhaka_college), S(v_al_madrasa), S(v_x), S(s_bn_university), S(v_model_primary)},
      am \in {Absent, S(s_school), S(v_School), S(s_college), S(v_cafe)},
      bu \in {Absent, S(v_University), S(s_school)},
      of \in {Absent, S(v_Training)},
      ma \in {Absent, S(v_yes)},
      re \in {Absent, S(s_muslim)} }

\* records for the address rules
AddrItems ==
  { Dict(KV(s_address, top) \o
         KV(s_tags, <<Dict(KV(s_addr_full, fu) \o KV(s_addr_housenumber, hn) \o
                           KV(s_addr_street, st) \o KV(s_addr_city, ci) \o
                           KV(s_addr_country, co) \o KV(s_contact_address, ca))>>)) :
      top \in {Absent, S(s_empty), S(v_top_addr)},
      fu \in {Absent, S(s_empty), S(v_full)},
      hn \in {Absent, S(v_12)},
      st \in {Absent, S(s_empty), S(v_main_st)},
      ci \in {Absent, S(v_dhaka)},
      co \in {Absent, S(v_bd)},
      ca \in {Absent, S(v_contact)} }

\* records for the phone rules
PhoneItems ==
  { Dict(KV(s_phone, top) \o
         KV(s_tags, <<Dict(KV(s_phone, ph) \o KV(s_contact_phone, cp) \o KV(s_telephone, te))>>)) :
      top \in {Absent, S(s_empty), S(v_111)},
      ph \in {Absent, S(s_empty), S(v_222)},
      cp \in {Absent, S(s_empty), S(v_333)},
      te \in {Absent, S(s_empty), S(v_444)} }

\* records for the direct and the generic fields: the field at top level
\* and under tags
ScalarValues ==
  {Absent, <<Null>>, <<Num(0)>>, <<Num(5)>>, <<Num(-3)>>, <<Bool(FALSE)>>, <<Bool(TRUE)>>,
   S(s_empty), S(v_url), <<List(<<>>)>>, <<List(<<Num(1), Str(v_x)>>)>>}

FieldItems(f) ==
  { Dict(KV(f, top) \o KV(s_tags, tg)) :
      top \in ScalarValues,
      tg \in {Absent, <<Null>>, <<Dict(KV(f, S(v_yes)))>>, <<Dict(KV(f, S(s_empty)))>>} }

\* entries a JSON file can hold that are not records of the data model
OddItems ==
  { Str(v_x), Num(5), Null, List(<<>>),
    Dict(KV(s_name, <<Num(5)>>)),
    Dict(KV(s_name, <<Null>>) \o KV(s_tags, <<Dict(KV(s_name, <<Null>>))>>)),
    Dict(KV(s_tags, S(s_telephone))),
    Dict(KV(s_tags, <<List(<<Str(s_phone)>>)>>)),
    Dict(KV(s_tags, <<Num(5)>>)),
    Dict(KV(s_tags, <<Dict(KV(s_name, <<Num(7)>>))>>)),
    Dict(KV(s_tags, <<Dict(KV(s_amenity, <<Num(1)>>))>>)),
    Dict(KV(s_tags, <<Dict(KV(s_addr_housenumber, <<Num(12)>>) \o KV(s_addr_street, S(v_main_st)))>>)),
    Dict(KV(s_tags, <<Dict(KV(s_phone, <<Num(111)>>))>>)),
    Dict(KV(s_address, <<Num(9)>>)) }

FieldNames ==
  {s_name, s_address, s_phone, s_category, s_lat, s_lon, s_osm_id, s_osm_type, v_website, v_capacity}

\* one record and one requested field
UnitCases ==
  [item : CatItems, arg : {s_category}]
    \cup [item : AddrItems, arg : {s_address, a_address_spaced}]
    \cup [item : PhoneItems, arg : {s_phone}]
    \cup UNION { [item : FieldItems(f), arg : {f}] : f \in {s_lat, s_osm_id, v_website, v_capacity} }
    \cup [item : OddItems, arg : FieldNames]

\* the records of the pipeline runs
RunItems ==
  { Dict(<<>>),
    Dict(KV(s_name, S(v_dhaka_college)) \o KV(s_tags, <<Dict(KV(s_addr_city, S(v_dhaka)))>>)),
    Dict(KV(s_name, S(s_empty)) \o KV(s_lat, <<Num(0)>>)),
    Dict(KV(s_tags, <<Dict(KV(s_phone, S(v_111)) \o KV(s_amenity, S(s_school)))>>)),
    Dict(KV(s_name, <<Num(5)>>)),
    Dict(KV(s_name, S(v_surrogate))),
    Str(v_x) }

RECURSIVE SeqsUpTo(_, _)
SeqsUpTo(S0, n) ==
  IF n = 0 THEN {<<>>}
  ELSE LET shorter == SeqsUpTo(S0, n - 1) IN
       shorter \cup { Append(s, x) : s \in shorter, x \in S0 }

RunLists == SeqsUpTo(RunItems, MaxItems)

\* the shapes of document load_json tells apart
RunDocs ==
  { List(l) : l \in RunLists }
    \cup { Dict(<<<<k, List(l)>>>>) : k \in {s_results, s_elements, s_items, s_name}, l \in RunLists }
    \cup { Dict(<<<<s_items, List(l)>>, <<s_elements, List(<<Dict(<<>>)>>)>>, <<s_results, Str(v_x)>>>>) :
             l \in RunLists }
    \cup { Str(v_x), Num(5), Bool(TRUE), Null }
    \cup RunItems

RunArgs == {a_name, a_name_address_category, a_name_phone_spaced, a_none, a_name_gap_lat}

OutArgs ==
  { [xlsx |-> FALSE, output |-> p_out_csv],
    [xlsx |-> TRUE, output |-> p_out_csv],
    [xlsx |-> FALSE, output |-> p_out_xlsx] }

\* ------------------------------------------------------------------- Init
InitUnit ==
  \E c \in UnitCases :
    /\ data = List(<<c.item>>)
    /\ fieldsArg = c.arg
    /\ xlsxFlag = FALSE
    /\ output = p_out_csv

InitRun ==
  /\ data \in RunDocs
  /\ fieldsArg \in RunArgs
  /\ \E o \in OutArgs : xlsxFlag = o.xlsx /\ output = o.output

ScraperIdle ==
  /\ spc = "idle"
  /\ argLocation = Null
  /\ argLat = Null
  /\ argLon = Null
  /\ mode = "strict"
  /\ coords = <<>>
  /\ calls = <<>>
  /\ elements = <<>>
  /\ taken = 0
  /\ seen = {}
  /\ results = <<>>
  /\ saved = <<>>
  /\ serr = ""

Init ==
  /\ ScraperIdle
  /\ (InitUnit \/ InitRun)
  /\ pc = "load"
  /\ items = <<>>
  /\ fields = <<>>
  /\ i = 0
  /\ row = <<>>
  /\ rows = <<>>
  /\ err = ""
  /\ outFile = <<>>
  /\ printed = ""

\* ---------------------------------------------------- main(): table export
\* items = load_json(args.input)
LoadJson ==
  /\ pc = "load"
  /\ items' = load_json(data)
  /\ pc' = "fields"
  /\ UNCHANGED <<data, fieldsArg, xlsxFlag, output, fields, i, row, rows, err, outFile, printed>>
  /\ UNCHANGED scraperVars

\* fields = [f.strip() for f in args.fields.split(",") if f.strip()]
SplitFields ==
  /\ pc = "fields"
  /\ fields' = ParseFields(fieldsArg)
  /\ pc' = "loop"
  /\ UNCHANGED <<data, fieldsArg, xlsxFlag, output, items, i, row, rows, err, outFile, printed>>
  /\ UNCHANGED scraperVars

\* one pass of `for it in items`: build the row, keep it unless every cell
\* is falsy; an exception of extract_value is not caught and ends the run
ExtractRow ==
  /\ pc = "loop"
  /\ i < Len(items)
  /\ LET r == MakeRow(items[i + 1], fields) IN
     IF IsRaise(r)
     THEN /\ err' = r.v
          /\ pc' = "crashed"
          /\ UNCHANGED <<i, row, rows>>
     ELSE /\ row' = r.v
          /\ rows' = IF AnyCell(r.v) THEN Append(rows, r.v) ELSE rows
          /\ i' = i + 1
          /\ UNCHANGED <<err, pc>>
  /\ UNCHANGED <<data, fieldsArg, xlsxFlag, output, items, fields, outFile, printed>>
  /\ UNCHANGED scraperVars

EndsWith(s, suffix) ==
  Len(s) >= Len(suffix) /\ SubSeq(s, Len(s) - Len(suffix) + 1, Len(s)) = suffix

s_dot_xlsx == <<".", "x", "l", "s", "x">>

\* args.xlsx or out_lower.endswith(".xlsx")
WantsXlsx == xlsxFlag \/ EndsWith(LowerSeq(output), s_dot_xlsx)

\* the utf-8-sig codec of the file refuses a lone surrogate: f.write raises
\* UnicodeEncodeError for a line that holds one
Encodable(r) == \A k \in 1..Len(r) : ~(IsStr(r[k]) /\ \E n \in 1..Len(r[k].v) : r[k].v[n] = "UD800")

\* the number of rows csv.writer writes before one fails to encode
RowsEncoded(rs) ==
  IF \A n \in 1..Len(rs) : Encodable(rs[n]) THEN Len(rs)
  ELSE (CHOOSE n \in 1..Len(rs) : ~Encodable(rs[n]) /\ \A j \in 1..(n - 1) : Encodable(rs[j])) - 1

\* write_rows_csv(rows, fields, args.output)
WriteRowsCsv ==
  /\ pc = "loop"
  /\ i = Len(items)
  /\ ~WantsXlsx
  /\ RowsEncoded(rows) = Len(rows)
  /\ outFile' = <<fields, rows, TRUE>>
  /\ printed' = "Wrote"
  /\ pc' = "done"
  /\ UNCHANGED <<data, fieldsArg, xlsxFlag, output, items, fields, i, row, rows, err>>
  /\ UNCHANGED scraperVars

\* write_rows_csv with a row that cannot be encoded: open() has created the
\* file, the header and the rows before the bad one are written, writerow
\* raises UnicodeEncodeError, the with block closes the file and the
\* exception, which is not a RuntimeError, leaves main uncaught
WriteRowsCsvEncodeError ==
  /\ pc = "loop"
  /\ i = Len(items)
  /\ ~WantsXlsx
  /\ RowsEncoded(rows) < Len(rows)
  /\ outFile' = <<fields, SubSeq(rows, 1, RowsEncoded(rows)), FALSE>>
  /\ err' = "UnicodeEncodeError"
  /\ pc' = "crashed"
  /\ UNCHANGED <<data, fieldsArg, xlsxFlag, output, items, fields, i, row, rows, printed>>
  /\ UNCHANGED scraperVars

\* write_rows_csv with the operating system refusing: either open() fails and
\* no file is created, or a write fails after open() created the file and
\* the header and some of the rows are in it; OSError is not caught by main
WriteRowsCsvOsError ==
  /\ pc = "loop"
  /\ i = Len(items)
  /\ ~WantsXlsx
  /\ \/ outFile' = outFile
     \/ \E k \in 0..RowsEncoded(rows) : outFile' = <<fields, SubSeq(rows, 1, k), FALSE>>
  /\ err' = "OSError"
  /\ pc' = "crashed"
  /\ UNCHANGED <<data, fieldsArg, xlsxFlag, output, items, fields, i, row, rows, printed>>
  /\ UNCHANGED scraperVars

\* write_rows_xlsx(rows, fields, args.output) with openpyxl installed
WriteRowsXlsx ==
  /\ pc = "loop"
  /\ i = Len(items)
  /\ WantsXlsx
  /\ outFile' = <<fields, rows, TRUE>>
  /\ printed' = "Wrote"
  /\ pc' = "done"
  /\ UNCHANGED <<data, fieldsArg, xlsxFlag, output, items, fields, i, row, rows, err>>
  /\ UNCHANGED scraperVars

\* write_rows_xlsx with wb.save(out_path) raising: the workbook was built in
\* memory, so the file is either not created or left as an archive that was
\* cut short and holds no readable table; the exception is not caught
WriteRowsXlsxSaveError ==
  /\ pc = "loop"
  /\ i = Len(items)
  /\ WantsXlsx
  /\ \/ outFile' = outFile
     \/ outFile' = <<<<>>, <<>>, FALSE>>
  /\ err' = "OSError"
  /\ pc' = "crashed"
  /\ UNCHANGED <<data, fieldsArg, xlsxFlag, output, items, fields, i, row, rows, printed>>
  /\ UNCHANGED scraperVars

\* write_rows_xlsx without openpyxl: RuntimeError, caught by main, which
\* prints the message and returns
WriteRowsXlsxMissing ==
  /\ pc = "loop"
  /\ i = Len(items)
  /\ WantsXlsx
  /\ printed' = "Writing .xlsx requires openpyxl"
  /\ pc' = "done"
  /\ UNCHANGED <<data, fieldsArg, xlsxFlag, output, items, fields, i, row, rows, err, outFile>>
  /\ UNCHANGED scraperVars

Next ==
  \/ LoadJson
  \/ SplitFields
  \/ ExtractRow
  \/ WriteRowsCsv
  \/ WriteRowsCsvEncodeError
  \/ WriteRowsCsvOsError
  \/ WriteRowsXlsx
  \/ WriteRowsXlsxSaveError
  \/ WriteRowsXlsxMissing

Spec == Init /\ [][Next]_vars

\* ================================================================ scrap.py

\* float(s) for a plain decimal numeral ("23.7", "-0.5", "90"), as a whole
\* number of 1e-7 degrees
DigitVal(c) == (CHOOSE d \in 1..10 : Digits[d] = c) - 1

RECURSIVE ParseNat(_)
ParseNat(s) == IF s = <<>> THEN 0 ELSE 10 * ParseNat(SubSeq(s, 1, Len(s) - 1)) + DigitVal(s[Len(s)])

RECURSIVE Pow10(_)
Pow10(n) == IF n = 0 THEN 1 ELSE 10 * Pow10(n - 1)

ParseUnsigned(s) ==
  LET parts == Split(s, ".")
      frac == IF Len(parts) > 1 THEN parts[2] ELSE <<>>
  IN  ParseNat(parts[1]) * Pow10(7) + ParseNat(frac) * Pow10(7 - Len(frac))

ParseFloat(s) == IF s # <<>> /\ Head(s) = "-" THEN 0 - ParseUnsigned(Tail(s)) ELSE ParseUnsigned(s)

\* the hardcoded coordinates of main(), in 1e-7 degrees
DefaultLat == 236899938
DefaultLon == 904256277

\* the default of --radius
DefaultRadius == 2000

\* ip lookup: data.get("loc", "0,0").split(",") turned into floats
s_loc == <<"l", "o", "c">>
s_zero_zero == <<"0", ",", "0">>

IpCoords(ipData) ==
  LET pieces == Split(Get(ipData, s_loc, Str(s_zero_zero)).v, ",")
  IN  <<ParseFloat(pieces[1]), ParseFloat(pieces[2])>>

\* build_overpass_query(lat, lon, radius, mode): the filter clauses, in the
\* order they are sent, and the output directive
s_out_center_tags == <<"o", "u", "t", " ", "c", "e", "n", "t", "e", "r", " ", "t", "a", "g", "s">>

QueryPatterns(m) ==
  IF m = "strict"
  THEN << <<s_amenity, {s_school, s_college, s_university, s_kindergarten, s_library, s_research}>>,
          <<s_building, {s_school, s_college, s_university}>>,
          <<s_office, {s_education, s_training}>> >>
  ELSE << <<s_amenity, {s_school, s_college, s_university, s_kindergarten, s_training, s_research, s_library}>>,
          <<s_building, {s_school, s_college, s_university, s_training}>>,
          <<s_office, {s_education, s_training}>>,
          <<s_name, {"Institute", "Academy", "Center", "Centre", "Training", "College", "University", "School"}>> >>

ElementKinds == <<"node", "way", "relation">>

build_overpass_query(lat, lon, radius, m) ==
  [clauses |-> [n \in 1..(3 * Len(QueryPatterns(m))) |->
                  [kind |-> ElementKinds[((n - 1) % 3) + 1],
                   key |-> QueryPatterns(m)[((n - 1) \div 3) + 1][1],
                   pattern |-> QueryPatterns(m)[((n - 1) \div 3) + 1][2],
                   around |-> <<radius, lat, lon>>]],
   out |-> s_out_center_tags]

\* extract_address(tags) of scrap.py
scrap_extract_address(tags) ==
  IF tags.t # "dict" THEN Raise("AttributeError")
  ELSE LET parts == AddrParts(tags, 1) IN
       IF parts # <<>> THEN Join(s_comma_space, parts)
       ELSE Or(Or(Get(tags, s_addr_full, Null), Get(tags, s_contact_address, Null)), EmptyStr)

\* extract_phone(tags) of scrap.py
scrap_extract_phone(tags) == PhoneFrom(tags, 1)

\* el_id = (el.get("type"), el.get("id"))
ElId(el) == <<Get(el, s_type, Null), Get(el, s_id, Null)>>

\* variant: the seen-set is never consulted
IsDuplicate_Never(el_id, seenIds) == FALSE

\* `if el_id in seen`
IsDuplicate(el_id, seenIds) == el_id \in seenIds

allowed_amenities == {s_school, s_college, s_university, s_kindergarten, s_library, s_research}
allowed_buildings == {s_school, s_college, s_university}
allowed_offices == {s_education, s_training}

\* variant: the tag values are compared without lower-casing
StrictAccepts_CaseSensitive(tags) ==
  \/ Get(tags, s_amenity, EmptyStr).v \in allowed_amenities
  \/ Get(tags, s_building, EmptyStr).v \in allowed_buildings
  \/ Get(tags, s_office, EmptyStr).v \in allowed_offices

\* the strict-mode test of parse_elements on the element's tags
StrictAccepts(tags) ==
  LET amenity == Lower(Get(tags, s_amenity, EmptyStr))
      building == Lower(Get(tags, s_building, EmptyStr))
      office == Lower(Get(tags, s_office, EmptyStr))
  IN  \/ amenity.v \in allowed_amenities
      \/ building.v \in allowed_buildings
      \/ office.v \in allowed_offices

\* whether parse_elements goes on to build a record for a first-seen element
Accepts(el, m) ==
  LET tags == Get(el, s_tags, EmptyDict)
      name == Get(tags, s_name, Null)
  IN  /\ Truthy(name)
      /\ m = "strict" => StrictAccepts(tags)

\* the record parse_elements appends for an element
ResultOf(el) ==
  LET tags == Get(el, s_tags, EmptyDict) IN
  Dict(<< <<s_osm_type, Get(el, s_type, Null)>>,
          <<s_osm_id, Get(el, s_id, Null)>>,
          <<s_name, Get(tags, s_name, Null)>>,
          <<s_address, scrap_extract_address(tags)>>,
          <<s_phone, scrap_extract_phone(tags)>>,
          <<s_lat, Or(Get(el, s_lat, Null), Get(Or(Get(el, s_center, Null), EmptyDict), s_lat, Null))>>,
          <<s_lon, Or(Get(el, s_lon, Null), Get(Or(Get(el, s_center, Null), EmptyDict), s_lon, Null))>>,
          <<s_tags, tags>> >>)

\* variant: one explicit coordinate is enough for the first branch
CoordSource_EitherCoord(location, argLat0, argLon0) ==
  IF argLat0 # Null \/ argLon0 # Null THEN "explicit"
  ELSE IF location = Null /\ argLat0 = Null /\ argLon0 = Null THEN "default"
  ELSE "lookup"

\* which of the three branches of main() gives the coordinates
CoordSource(location, argLat0, argLon0) ==
  IF argLat0 # Null /\ argLon0 # Null THEN "explicit"
  ELSE IF location = Null /\ argLat0 = Null /\ argLon0 = Null THEN "default"
  ELSE "lookup"

\* `if location:` of geocode_location
UsesGeocoder(location) == Truthy(location)

s_dot_json == <<".", "j", "s", "o", "n">>

\* outfmt of main(), then the test of save_results
SavesJson(format, out) ==
  LET outfmt == IF Truthy(format) THEN format.v
                ELSE IF EndsWith(LowerSeq(out), s_dot_json) THEN <<"j", "s", "o", "n">>
                ELSE <<"c", "s", "v">>
  IN  outfmt = <<"j", "s", "o", "n">> \/ EndsWith(LowerSeq(out), s_dot_json)

CsvKeys == <<s_name, s_address, s_phone, s_lat, s_lon>>

\* the rows csv.DictWriter is given: {k: r.get(k, "") for k in keys}
CsvRows(rs) ==
  [n \in 1..Len(rs) |-> [k \in 1..Len(CsvKeys) |-> Get(rs[n], CsvKeys[k], EmptyStr)]]

\* ------------------------------------------------ scraper bounds and inputs
MaxElems == 3
MaxResponse == 2

El(type, id, extra) == Dict(<< <<s_type, Str(type)>>, <<s_id, Num(id)>> >> \o extra)

v_y == <<"Y">>
v_z == <<"Z">>
v_w == <<"W">>
v_College == <<"C", "o", "l", "l", "e", "g", "e">>

\* elements as Overpass returns them: nodes with lat/lon, ways with a center,
\* tags missing or a mapping of strings
ElemA == El(v_node, 1, KV(s_lat, <<Num(237)>>) \o KV(s_lon, <<Num(904)>>) \o
             KV(s_tags, <<Dict(KV(s_name, S(v_x)) \o KV(s_amenity, S(v_School)) \o
                               KV(s_addr_street, S(v_main_st)) \o KV(s_addr_city, S(v_dhaka)))>>))
ElemB == El(v_node, 1, KV(s_tags, <<Dict(KV(s_name, S(v_y)) \o KV(s_amenity, S(s_school)))>>))
ElemC == El(v_node, 1, <<>>)
ElemD == El(v_way, 1, KV(s_center, <<Dict(KV(s_lat, <<Num(238)>>) \o KV(s_lon, <<Num(905)>>))>>) \o
             KV(s_tags, <<Dict(KV(s_name, S(v_z)))>>))
ElemE == El(v_node, 2, KV(s_tags, <<Dict(KV(s_name, S(s_empty)) \o KV(s_amenity, S(s_school)))>>))
ElemF == El(v_way, 1, KV(s_tags, <<Dict(KV(s_name, S(v_w)) \o KV(s_office, S(s_education)) \o
                                        KV(s_contact_phone, S(v_333)))>>))
ElemG == El(v_node, 2, KV(s_tags, <<Dict(KV(s_name, S(v_dhaka_college)) \o KV(s_building, S(v_College)) \o
                                         KV(s_amenity, S(v_cafe)))>>))
ElemH == El(v_way, 2, KV(s_tags, <<Dict(KV(s_name, S(v_city_school)) \o KV(s_amenity, S(v_cafe)))>>))

Elems == {ElemA, ElemB, ElemC, ElemD, ElemE, ElemF, ElemG, ElemH}
ResponseElems == {ElemA, ElemC, ElemD, ElemG}

Modes == {"strict", "loose"}

Locations == {Null, EmptyStr, Str(v_dhaka)}
LatArgs == {Null, Num(0)}
LonArgs == {Null, Num(904000000)}

\* what the geocoder answers: a list of candidates, or an HTTP error status
GeocodeAnswers ==
  { List(<<Dict(<< <<s_lat, Str(<<"2", "3", ".", "7">>)>>, <<s_lon, Str(<<"9", "0", ".", "4">>)>> >>)>>),
    List(<<>>) }

IpAnswers ==
  { Dict(<< <<s_loc, Str(<<"2", "3", ".", "8", ",", "-", "0", ".", "5">>)>> >>), Dict(<<>>) }

SaveArgs ==
  { [format |-> Null, output |-> <<"r", ".", "c", "s", "v">>],
    [format |-> Null, output |-> <<"R", ".", "J", "S", "O", "N">>],
    [format |-> Str(<<"j", "s", "o", "n">>), output |-> <<"r", ".", "c", "s", "v">>] }

\* ------------------------------------------------------------------- Init
ExportIdle ==
  /\ pc = "idle"
  /\ data = Null
  /\ fieldsArg = <<>>
  /\ xlsxFlag = FALSE
  /\ output = <<>>
  /\ items = <<>>
  /\ fields = <<>>
  /\ i = 0
  /\ row = <<>>
  /\ rows = <<>>
  /\ err = ""
  /\ outFile = <<>>
  /\ printed = ""

\* a run of main()
InitMain ==
  /\ spc = "args"
  /\ argLocation \in Locations
  /\ argLat \in LatArgs
  /\ argLon \in LonArgs
  /\ mode = "strict"
  /\ elements = <<>>

\* a call of parse_elements(elements, mode)
InitParse ==
  /\ spc = "parse"
  /\ argLocation = Null
  /\ argLat = Null
  /\ argLon = Null
  /\ mode \in Modes
  /\ elements \in SeqsUpTo(Elems, MaxElems)

InitScraper ==
  /\ ExportIdle
  /\ (InitMain \/ InitParse)
  /\ coords = <<>>
  /\ calls = <<>>
  /\ taken = 0
  /\ seen = {}
  /\ results = <<>>
  /\ saved = <<>>
  /\ serr = ""

\* ------------------------------------------------------- main(): scraper
\* the first two branches of the coordinate priority logic
UseExplicit ==
  /\ spc = "args"
  /\ CoordSource(argLocation, argLat, argLon) = "explicit"
  /\ coords' = <<argLat.v, argLon.v>>
  /\ spc' = "query"
  /\ UNCHANGED <<argLocation, argLat, argLon, mode, elements, calls, taken, seen, results, saved, serr>>
  /\ UNCHANGED exportVars

UseDefault ==
  /\ spc = "args"
  /\ CoordSource(argLocation, argLat, argLon) = "default"
  /\ coords' = <<DefaultLat, DefaultLon>>
  /\ spc' = "query"
  /\ UNCHANGED <<argLocation, argLat, argLon, mode, elements, calls, taken, seen, results, saved, serr>>
  /\ UNCHANGED exportVars

\* geocode_location(location) with a location: one GET to Nominatim, which
\* answers with candidates
Geocode ==
  /\ spc = "args"
  /\ CoordSource(argLocation, argLat, argLon) = "lookup"
  /\ UsesGeocoder(argLocation)
  /\ calls' = Append(calls, [api |-> "nominatim", sent |-> argLocation.v])
  /\ \E answer \in GeocodeAnswers :
       IF ~Truthy(answer)
       THEN /\ serr' = "ValueError"
            /\ spc' = "failed"
            /\ UNCHANGED coords
       ELSE /\ coords' = <<ParseFloat(Get(answer.v[1], s_lat, Null).v),
                           ParseFloat(Get(answer.v[1], s_lon, Null).v)>>
            /\ spc' = "query"
            /\ UNCHANGED serr
  /\ UNCHANGED <<argLocation, argLat, argLon, mode, elements, taken, seen, results, saved>>
  /\ UNCHANGED exportVars

\* the same GET answered with an HTTP error: 403 becomes a RuntimeError with
\* the hint, any other status is raised as it is; neither is caught
GeocodeHttpError ==
  /\ spc = "args"
  /\ CoordSource(argLocation, argLat, argLon) = "lookup"
  /\ UsesGeocoder(argLocation)
  /\ calls' = Append(calls, [api |-> "nominatim", sent |-> argLocation.v])
  /\ \E status \in {403, 500} :
       serr' = IF status = 403 THEN "RuntimeError" ELSE "HTTPError"
  /\ spc' = "failed"
  /\ UNCHANGED <<argLocation, argLat, argLon, mode, elements, coords, taken, seen, results, saved>>
  /\ UNCHANGED exportVars

\* geocode_location(location) without a location: one GET to ipinfo.io
IpLookup ==
  /\ spc = "args"
  /\ CoordSource(argLocation, argLat, argLon) = "lookup"
  /\ ~UsesGeocoder(argLocation)
  /\ calls' = Append(calls, [api |-> "ipinfo", sent |-> <<>>])
  /\ \E answer \in IpAnswers : coords' = IpCoords(answer)
  /\ spc' = "query"
  /\ UNCHANGED <<argLocation, argLat, argLon, mode, elements, taken, seen, results, saved, serr>>
  /\ UNCHANGED exportVars

IpLookupHttpError ==
  /\ spc = "args"
  /\ CoordSource(argLocation, argLat, argLon) = "lookup"
  /\ ~UsesGeocoder(argLocation)
  /\ calls' = Append(calls, [api |-> "ipinfo", sent |-> <<>>])
  /\ serr' = "HTTPError"
  /\ spc' = "failed"
  /\ UNCHANGED <<argLocation, argLat, argLon, mode, elements, coords, taken, seen, results, saved>>
  /\ UNCHANGED exportVars

\* query_overpass(lat, lon, args.radius): one POST, answered with elements
QueryOverpass ==
  /\ spc = "query"
  /\ calls' = Append(calls, [api |-> "overpass",
                             sent |-> build_overpass_query(coords[1], coords[2], DefaultRadius, "strict")])
  /\ elements' \in SeqsUpTo(ResponseElems, MaxResponse)
  /\ spc' = "parse"
  /\ UNCHANGED <<argLocation, argLat, argLon, mode, coords, taken, seen, results, saved, serr>>
  /\ UNCHANGED exportVars

QueryOverpassHttpError ==
  /\ spc = "query"
  /\ calls' = Append(calls, [api |-> "overpass",
                             sent |-> build_overpass_query(coords[1], coords[2], DefaultRadius, "strict")])
  /\ serr' = "HTTPError"
  /\ spc' = "failed"
  /\ UNCHANGED <<argLocation, argLat, argLon, mode, elements, coords, taken, seen, results, saved>>
  /\ UNCHANGED exportVars

\* one pass of `for el in elements` of parse_elements
ParseElement ==
  /\ spc = "parse"
  /\ taken < Len(elements)
  /\ LET el == elements[taken + 1] IN
     IF IsDuplicate(ElId(el), seen)
     THEN UNCHANGED <<seen, results>>
     ELSE /\ seen' = seen \cup {ElId(el)}
          /\ results' = IF Accepts(el, mode) THEN Append(results, ResultOf(el)) ELSE results
  /\ taken' = taken + 1
  /\ UNCHANGED <<argLocation, argLat, argLon, mode, elements, coords, calls, spc, saved, serr>>
  /\ UNCHANGED exportVars

\* `return results`
ParseReturn ==
  /\ spc = "parse"
  /\ taken = Len(elements)
  /\ spc' = IF calls = <<>> THEN "returned" ELSE "save"
  /\ UNCHANGED <<argLocation, argLat, argLon, mode, elements, coords, calls, taken, seen, results, saved, serr>>
  /\ UNCHANGED exportVars

\* the file save_results leaves after writing the first k records
SavedFile(o, k, whole) ==
  IF SavesJson(o.format, o.output)
  THEN [path |-> o.output, kind |-> "json", content |-> SubSeq(results, 1, k), complete |-> whole]
  ELSE [path |-> o.output, kind |-> "csv",
        content |-> <<CsvKeys>> \o SubSeq(CsvRows(results), 1, k), complete |-> whole]

\* save_results(results, args.output, outfmt)
SaveResults ==
  /\ spc = "save"
  /\ \E o \in SaveArgs : saved' = <<SavedFile(o, Len(results), TRUE)>>
  /\ spc' = "done"
  /\ UNCHANGED <<argLocation, argLat, argLon, mode, elements, coords, calls, taken, seen, results, serr>>
  /\ UNCHANGED exportVars

\* save_results with the operating system refusing: either open() fails and
\* no file is created, or a write fails after open() created the file and
\* part of the output is in it; nothing catches the OSError
SaveResultsOsError ==
  /\ spc = "save"
  /\ \/ saved' = saved
     \/ \E o \in SaveArgs : \E k \in 0..Len(results) : saved' = <<SavedFile(o, k, FALSE)>>
  /\ serr' = "OSError"
  /\ spc' = "failed"
  /\ UNCHANGED <<argLocation, argLat, argLon, mode, elements, coords, calls, taken, seen, results>>
  /\ UNCHANGED exportVars

NextScraper ==
  \/ UseExplicit
  \/ UseDefault
  \/ Geocode
  \/ GeocodeHttpError
  \/ IpLookup
  \/ IpLookupHttpError
  \/ QueryOverpass
  \/ QueryOverpassHttpError
  \/ ParseElement
  \/ ParseReturn
  \/ SaveResults
  \/ SaveResultsOsError

SpecScraper == InitScraper /\ [][NextScraper]_vars
\* ================================================================= claims
\* A record of the data model: a mapping whose name, address and phone are
\* strings where present and whose tags, where present, map to strings.
IsRecord(item) ==
  /\ item.t = "dict"
  /\ \A k \in {s_name, s_address, s_phone} : HasKey(item, k) => IsStr(Lookup(item, k))
  /\ HasKey(item, s_tags) =>
       /\ Lookup(item, s_tags).t = "dict"
       /\ \A n \in 1..Len(Lookup(item, s_tags).v) : IsStr(Lookup(item, s_tags).v[n][2])

\* the string under a top-level key / a tag of a record, "" when absent
TopOf(item, k) == IF HasKey(item, k) THEN Lookup(item, k).v ELSE s_empty
HasTag(item, k) == HasKey(item, s_tags) /\ HasKey(Lookup(item, s_tags), k)
TagOf(item, k) == IF HasTag(item, k) THEN Lookup(Lookup(item, s_tags), k).v ELSE s_empty

\* the record the loop took last, and the cells built for it
Taken == i >= 1
Cur == items[i]

\* ---- C1
RecName(item) == IF TopOf(item, s_name) # s_empty THEN TopOf(item, s_name) ELSE TagOf(item, s_name)

\* a tag value as a rule compares it: lower-cased (fold) or as written
TagCmp(item, k, fold) == IF fold THEN LowerSeq(TagOf(item, k)) ELSE TagOf(item, k)

NameHas(item, kws) == \E n \in 1..Len(kws) : Contains(kws[n], LowerSeq(RecName(item)))

RuleMatches(n, item, fold) ==
  CASE n = 1 -> TagCmp(item, s_amenity, fold) = s_school
    [] n = 2 -> \/ TagCmp(item, s_amenity, fold) \in {s_college, s_university}
                \/ TagCmp(item, s_building, fold) \in {s_college, s_university}
    [] n = 3 -> NameHas(item, madrasa_keywords)
    [] n = 4 -> \/ TagOf(item, s_madrasa) # s_empty
                \/ (TagOf(item, s_religion) = s_muslim /\ NameHas(item, <<s_madrasa>>))
    [] n = 5 -> NameHas(item, school_keywords)
    [] n = 6 -> NameHas(item, college_keywords)
    [] n = 7 -> \/ TagCmp(item, s_office, fold) \in {s_education, s_training}
                \/ TagCmp(item, s_building, fold) = s_school
    [] n = 8 -> TRUE

RuleLabel == <<s_school, s_college, s_madrasa, s_madrasa, s_school, s_college, s_school, s_other>>

FirstRule(item, fold) ==
  CHOOSE n \in 1..8 : RuleMatches(n, item, fold) /\ \A m \in 1..(n - 1) : ~RuleMatches(m, item, fold)

CategoryCells == {k \in 1..Len(fields) : Taken /\ fields[k] = s_category /\ IsRecord(Cur)}

\* C1 (as stated): the category of every record is the label of the first
\* matching rule of the chain, the tag rules 1, 2 and 7 comparing the tag
\* values as written.
C1_AsStated == \A k \in CategoryCells : row[k] = Str(RuleLabel[FirstRule(Cur, FALSE)])

\* C1 (amended): the category of every record is the label of the first
\* matching rule of the chain, the tag rules 1, 2 and 7 comparing the
\* lower-cased values of amenity, building and office; a record whose
\* lower-cased amenity is school is a school whatever its name, a record
\* whose name contains madrasa and that matches neither rule 1 nor rule 2
\* is a madrasa, and the label is one of school, college, madrasa, other.
C1_FirstMatchLowerCased ==
  \A k \in CategoryCells :
    /\ row[k] = Str(RuleLabel[FirstRule(Cur, TRUE)])
    /\ LowerSeq(TagOf(Cur, s_amenity)) = s_school => row[k] = Str(s_school)
    /\ (/\ Contains(s_madrasa, LowerSeq(RecName(Cur)))
        /\ ~RuleMatches(1, Cur, TRUE) /\ ~RuleMatches(2, Cur, TRUE)) => row[k] = Str(s_madrasa)
    /\ row[k] \in {Str(s_school), Str(s_college), Str(s_madrasa), Str(s_other)}

\* a school tag written "School" on a record named after a madrasa has been
\* classified as a school
C1_Witness ==
  \E k \in CategoryCells :
    /\ TagOf(Cur, s_amenity) = v_School
    /\ Contains(s_madrasa, LowerSeq(RecName(Cur)))
    /\ row[k] = Str(s_school)

\* ---- C2
\* C2: extract_value never raises and every cell it returns is a string,
\* whatever the loaded entries hold.
C2_TotalAndString ==
  /\ pc # "crashed"
  /\ Taken => \A k \in 1..Len(row) : IsStr(row[k])

\* ---- C3
AddressCells == {k \in 1..Len(fields) : Taken /\ fields[k] = s_address /\ IsRecord(Cur)}

PresentParts(item) ==
  LET present == SelectSeq(AddrKeys, LAMBDA key : HasTag(item, key))
  IN  [n \in 1..Len(present) |-> TagOf(item, present[n])]

NonEmptyParts(item) ==
  LET nonEmpty == SelectSeq(AddrKeys, LAMBDA key : TagOf(item, key) # s_empty)
  IN  [n \in 1..Len(nonEmpty) |-> TagOf(item, nonEmpty[n])]

AddressByPresence(item) ==
  IF HasKey(item, s_address) THEN TopOf(item, s_address)
  ELSE IF PresentParts(item) # <<>> THEN JoinSeq(s_comma_space, PresentParts(item))
  ELSE IF HasTag(item, s_addr_full) THEN TagOf(item, s_addr_full)
  ELSE TagOf(item, s_contact_address)

AddressByContent(item) ==
  IF TopOf(item, s_address) # s_empty THEN TopOf(item, s_address)
  ELSE IF NonEmptyParts(item) # <<>> THEN JoinSeq(s_comma_space, NonEmptyParts(item))
  ELSE IF TagOf(item, s_addr_full) # s_empty THEN TagOf(item, s_addr_full)
  ELSE TagOf(item, s_contact_address)

\* C3 (as stated): the address is the top-level address if that key is
\* present, else the present component tags joined with ", ", else addr:full,
\* else contact:address, else ""; addr:full and contact:address are not used
\* when a component tag is present.
C3_AsStated ==
  \A k \in AddressCells :
    /\ row[k] = Str(AddressByPresence(Cur))
    /\ (~HasKey(Cur, s_address) /\ PresentParts(Cur) # <<>>) =>
         row[k] = Str(JoinSeq(s_comma_space, PresentParts(Cur)))

\* C3 (amended): the address is the top-level address if it is non-empty,
\* else the non-empty component tags in the fixed order joined with ", ",
\* else a non-empty addr:full, else a non-empty contact:address, else "";
\* addr:full and contact:address are not used when a component tag is
\* non-empty.
C3_AddressByContent ==
  \A k \in AddressCells :
    /\ row[k] = Str(AddressByContent(Cur))
    /\ (TopOf(Cur, s_address) = s_empty /\ NonEmptyParts(Cur) # <<>>) =>
         row[k] = Str(JoinSeq(s_comma_space, NonEmptyParts(Cur)))

\* street and city joined while addr:full is set and not used
C3_Witness ==
  \E k \in AddressCells :
    /\ ~HasKey(Cur, s_address)
    /\ TagOf(Cur, s_addr_street) = v_main_st /\ TagOf(Cur, s_addr_city) = v_dhaka
    /\ ~HasTag(Cur, s_addr_housenumber) /\ ~HasTag(Cur, s_addr_country)
    /\ TagOf(Cur, s_addr_full) = v_full
    /\ row[k] = Str(v_main_st \o s_comma_space \o v_dhaka)

\* ---- C4
PhoneCells == {k \in 1..Len(fields) : Taken /\ fields[k] = s_phone /\ IsRecord(Cur)}

\* the four places a phone is read from, in order
PhonePlaces(item) ==
  <<TopOf(item, s_phone), TagOf(item, s_phone), TagOf(item, s_contact_phone), TagOf(item, s_telephone)>>

\* C4: a non-empty phone value under one of the four places is returned
\* whenever every earlier place is absent or empty; with no non-empty value
\* anywhere the result is "".
C4_FirstNonEmptyPhone ==
  \A k \in PhoneCells :
    /\ \A n \in 1..4 :
         (PhonePlaces(Cur)[n] # s_empty /\ \A m \in 1..(n - 1) : PhonePlaces(Cur)[m] = s_empty)
           => row[k] = Str(PhonePlaces(Cur)[n])
    /\ (\A n \in 1..4 : PhonePlaces(Cur)[n] = s_empty) => row[k] = EmptyStr

\* ---- C5
GenericCells ==
  {k \in 1..Len(fields) :
     Taken /\ IsRecord(Cur) /\ fields[k] \notin ({s_name, s_address, s_phone, s_category} \cup DirectFields)}

DirectCells == {k \in 1..Len(fields) : Taken /\ IsRecord(Cur) /\ fields[k] \in DirectFields}

\* C5: a generic field is the string form of the top-level value whenever
\* the key is present with a value (0, false and "" included), of tags[field]
\* only when it is absent, "" when both are absent; lat, lon, osm_id and osm_type are
\* the string form of the top-level value unless it is null or absent, and
\* never come from tags.
C5_TopLevelWhenPresent ==
  /\ \A k \in GenericCells :
       row[k] = IF HasKey(Cur, fields[k]) /\ Lookup(Cur, fields[k]).t # "null"
                THEN PyStr(Lookup(Cur, fields[k]))
                ELSE Str(TagOf(Cur, fields[k]))
  /\ \A k \in DirectCells :
       row[k] = IF HasKey(Cur, fields[k]) /\ Lookup(Cur, fields[k]).t # "null"
                THEN PyStr(Lookup(Cur, fields[k]))
                ELSE EmptyStr

\* ---- C8
IsListAt(d, k) == HasKey(d, k) /\ Lookup(d, k).t = "list"

Loaded == pc # "load"

\* C8: load_json returns the array itself for an array, the list under the
\* first list-valued key of results, elements, items for an object, the
\* object alone in a list for an object with no such key, and the empty list
\* for every other document.
C8_LoadShapes ==
  Loaded =>
    /\ data.t = "list" => items = data.v
    /\ data.t = "dict" =>
         /\ IsListAt(data, s_results) => items = Lookup(data, s_results).v
         /\ (~IsListAt(data, s_results) /\ IsListAt(data, s_elements)) =>
              items = Lookup(data, s_elements).v
         /\ (~IsListAt(data, s_results) /\ ~IsListAt(data, s_elements) /\ IsListAt(data, s_items)) =>
              items = Lookup(data, s_items).v
         /\ (~IsListAt(data, s_results) /\ ~IsListAt(data, s_elements) /\ ~IsListAt(data, s_items)) =>
              items = <<data>>
    /\ data.t \notin {"list", "dict"} => items = <<>>

\* an object whose results is not a list and whose elements and items both
\* are has been loaded as its elements
C8_Witness ==
  /\ Loaded
  /\ data.t = "dict"
  /\ HasKey(data, s_results) /\ ~IsListAt(data, s_results)
  /\ IsListAt(data, s_elements) /\ IsListAt(data, s_items)
  /\ Lookup(data, s_elements) # Lookup(data, s_items)
  /\ items = Lookup(data, s_elements).v

\* ---- C9
NonEmptyString(x) == IsStr(x) /\ x.v # s_empty

CellsOf(item) == [k \in 1..Len(ParseFields(fieldsArg)) |-> extract_value(item, ParseFields(fieldsArg)[k])]

RECURSIVE RowsFor(_)
RowsFor(its) ==
  IF its = <<>> THEN <<>>
  ELSE RowsFor(SubSeq(its, 1, Len(its) - 1)) \o
       (IF \E k \in 1..Len(ParseFields(fieldsArg)) : NonEmptyString(CellsOf(its[Len(its)])[k])
        THEN <<CellsOf(its[Len(its)])>> ELSE <<>>)

Written == pc = "done" /\ outFile # <<>>

\* C9: the rows written are, in input order, the rows of exactly those
\* records for which some requested field extracts to a non-empty string,
\* each row holding one cell per requested field in the requested order.
C9_RowsWritten ==
  (Written /\ \A n \in 1..Len(items) : IsRecord(items[n])) =>
    /\ outFile[1] = ParseFields(fieldsArg)
    /\ outFile[2] = RowsFor(items)
    /\ \A n \in 1..Len(outFile[2]) : Len(outFile[2][n]) = Len(outFile[1])

\* two records were loaded, the one that extracts to nothing produced no
\* row and the other one did
C9_Witness ==
  /\ Written
  /\ Len(items) = 2 /\ \A n \in 1..2 : IsRecord(items[n])
  /\ outFile[1] = <<s_name, s_phone>>
  /\ \A k \in 1..2 : extract_value(items[1], fields[k]) = EmptyStr
  /\ outFile[2] = << <<EmptyStr, Str(v_111)>> >>


\* ---- C6
ParseDone == spc \in {"returned", "save", "done"}

ResultId(r) == <<Lookup(r, s_osm_type), Lookup(r, s_osm_id)>>

ResultsWith(id) == {n \in 1..Len(results) : ResultId(results[n]) = id}

ElementsWith(id) == {n \in 1..Len(elements) : ElId(elements[n]) = id}

FirstWith(id) == elements[CHOOSE n \in ElementsWith(id) : \A j \in ElementsWith(id) : n <= j]

\* the filter as the specification words it
Named(el) == TagOf(el, s_name) # s_empty

Recognized(el) ==
  \/ LowerSeq(TagOf(el, s_amenity)) \in
       {s_school, s_college, s_university, s_kindergarten, s_library, s_research}
  \/ LowerSeq(TagOf(el, s_building)) \in {s_school, s_college, s_university}
  \/ LowerSeq(TagOf(el, s_office)) \in {s_education, s_training}

Keeps(el, m) == Named(el) /\ (m = "strict" => Recognized(el))

NoSharedId ==
  \A a, b \in 1..Len(results) : ResultId(results[a]) = ResultId(results[b]) => a = b

\* C6 (as stated): when two elements of the input have the same (type, id),
\* the output holds exactly one record for that pair, built from the first
\* element with it; no two output records share a pair.
C6_AsStated ==
  /\ NoSharedId
  /\ ParseDone =>
       \A n \in 1..Len(elements) :
         Cardinality(ElementsWith(ElId(elements[n]))) >= 2 =>
           /\ Cardinality(ResultsWith(ElId(elements[n]))) = 1
           /\ \A r \in ResultsWith(ElId(elements[n])) :
                results[r] = ResultOf(FirstWith(ElId(elements[n])))

\* C6 (amended): for every (type, id) of the input the output holds at most
\* one record, exactly one when the first element with that pair passes the
\* name and mode filters and none when it does not, and that record is built
\* from the first element with the pair; no two output records share a pair.
C6_FirstOccurrenceDecides ==
  /\ NoSharedId
  /\ ParseDone =>
       \A n \in 1..Len(elements) :
         /\ Cardinality(ResultsWith(ElId(elements[n]))) =
              (IF Keeps(FirstWith(ElId(elements[n])), mode) THEN 1 ELSE 0)
         /\ \A r \in ResultsWith(ElId(elements[n])) :
              results[r] = ResultOf(FirstWith(ElId(elements[n])))

\* two different elements with one (type, id) were parsed and the record of
\* the first is the only output
C6_Witness ==
  /\ ParseDone
  /\ elements = <<ElemA, ElemB>>
  /\ results = <<ResultOf(ElemA)>>

\* ---- C7
FirstOccurrence(n) == \A j \in 1..(n - 1) : ElId(elements[j]) # ElId(elements[n])

RECURSIVE KeptUpTo(_)
KeptUpTo(n) ==
  IF n = 0 THEN <<>>
  ELSE KeptUpTo(n - 1) \o
       (IF FirstOccurrence(n) /\ Keeps(elements[n], mode) THEN <<ResultOf(elements[n])>> ELSE <<>>)

\* C7: the records parsed so far are, in encounter order, those of the
\* first-occurrence elements with a non-empty tags.name that, in strict mode,
\* have a lower-cased amenity, building or office in its allow-list (every
\* one of them in loose mode); an element with only a name is dropped in
\* strict mode, and every record has a non-empty name.
C7_FilterAndOrder ==
  /\ results = KeptUpTo(taken)
  /\ \A n \in 1..Len(results) : NonEmptyString(Lookup(results[n], s_name))
  /\ \A n \in 1..taken :
       (mode = "strict" /\ ~HasTag(elements[n], s_amenity) /\ ~HasTag(elements[n], s_building)
          /\ ~HasTag(elements[n], s_office)) =>
         \A r \in 1..Len(results) : results[r] # ResultOf(elements[n])

\* strict mode dropped the element that has only a name and kept the two
\* recognized ones that follow it, in their order
C7_Witness ==
  /\ ParseDone
  /\ mode = "strict"
  /\ elements = <<ElemD, ElemA, ElemG>>
  /\ results = <<ResultOf(ElemA), ResultOf(ElemG)>>

\* ---- C10
CallsTo(apis) == {n \in 1..Len(calls) : calls[n].api \in apis}

Lookups == CallsTo({"nominatim", "ipinfo"})

BothCoordsGiven == argLat # Null /\ argLon # Null
NothingGiven == argLocation = Null /\ argLat = Null /\ argLon = Null
CoordsKnown == coords # <<>>

\* what C10 says of every run but the choice between the two lookups
RunDiscipline ==
  /\ BothCoordsGiven => (Lookups = {} /\ (CoordsKnown => coords = <<argLat.v, argLon.v>>))
  /\ (~BothCoordsGiven /\ NothingGiven) =>
       (Lookups = {} /\ (CoordsKnown => coords = <<236899938, 904256277>>))
  /\ (~BothCoordsGiven /\ ~NothingGiven) =>
       Cardinality(Lookups) = (IF spc = "args" THEN 0 ELSE 1)
  /\ \A api \in {"nominatim", "ipinfo", "overpass"} : Cardinality(CallsTo({api})) <= 1
  /\ \A n \in CallsTo({"overpass"}) : n = Len(calls) /\ CoordsKnown
  /\ saved # <<>> => (CallsTo({"overpass"}) # {} /\ spc \in {"done", "failed"})

MissingLibraryMessage == "Writing .xlsx requires openpyxl"

\* the table export's write has failed: the library was missing, or an
\* exception left write_rows_csv / write_rows_xlsx
ExportWriteFailed ==
  \/ printed = MissingLibraryMessage
  \/ pc = "crashed" /\ err \in {"OSError", "UnicodeEncodeError"}

\* an exception left save_results
ScraperWriteFailed == spc = "failed" /\ serr = "OSError"

\* C11: in both pipelines, after a run whose write failed the output path
\* holds no file created by that run, neither partial nor complete; and when
\* the spreadsheet library is missing the table export prints the message
\* and ends without raising and without writing.
C11_NoFileOnFailure ==
  /\ ExportWriteFailed => outFile = <<>>
  /\ ScraperWriteFailed => saved = <<>>
  /\ printed = MissingLibraryMessage => (pc = "done" /\ err = "" /\ outFile = <<>>)

============================================================================
